---- MODULE Spec2Model ----
(***************************************************************************)
(* Particle distribution and synchrotron spectrum of a pulsar crossing an  *)
(* accretion disk: the two scripts single_pulsar.py (extended script) and  *)
(* pulsar_IR_flare_test.py (single-script variant), as one state machine.  *)
(*                                                                         *)
(* Numbers.  The scripts compute with floating point; the model computes   *)
(* with exact values:                                                      *)
(*   - a rational [n, d] where the code's arithmetic is rational;          *)
(*   - v^e for a rational v > 0 and a rational exponent e, kept symbolic   *)
(*     and compared exactly (x |-> x^e is monotone);                       *)
(*   - a real known by its sign only (the difference, product or sum of    *)
(*     such values), "any" when the sign of a sum of terms of opposite     *)
(*     signs is not determined by the signs;                               *)
(*   - not-a-number, produced where numpy produces it (a negative base     *)
(*     with a non-integer exponent, the logarithm of a negative number)    *)
(*     and propagated as numpy propagates it (False * nan = nan).          *)
(* Lorentz factors and frequencies are powers of ten on logarithmic grids, *)
(* as np.logspace makes them, with fewer points than the scripts' 99.      *)
(***************************************************************************)
EXTENDS Integers, Sequences, FiniteSets

\* Number of points of the Lorentz-factor grid (99 in the scripts).
NGamma == 4
\* Number of points of the photon-frequency grid (99 in the scripts).
NNu == 4

(***************************************************************************)
(* Exact rational arithmetic.                                              *)
(***************************************************************************)
Abs(n) == IF n < 0 THEN -n ELSE n

RECURSIVE GCD(_, _)
GCD(a, c) == IF c = 0 THEN a ELSE GCD(c, a % c)

Rat(n, d) ==
  LET g == GCD(Abs(n), Abs(d))
      s == IF d < 0 THEN -1 ELSE 1
  IN  [n |-> s * (n \div g), d |-> s * (d \div g)]

Int2Rat(k) == [n |-> k, d |-> 1]
Zero == Int2Rat(0)
One == Int2Rat(1)

RAdd(p, q) == Rat(p.n * q.d + q.n * p.d, p.d * q.d)
RSub(p, q) == Rat(p.n * q.d - q.n * p.d, p.d * q.d)
RMul(p, q) == Rat(p.n * q.n, p.d * q.d)
RDiv(p, q) == Rat(p.n * q.d, p.d * q.n)
RInv(p) == Rat(p.d, p.n)
RAbs(p) == [n |-> Abs(p.n), d |-> p.d]
SignOfInt(k) == IF k < 0 THEN -1 ELSE IF k = 0 THEN 0 ELSE 1
RSign(p) == SignOfInt(p.n)
RCmp(p, q) == SignOfInt(p.n * q.d - q.n * p.d)
RLt(p, q) == RCmp(p, q) < 0
RLe(p, q) == RCmp(p, q) <= 0

RECURSIVE RPowInt(_, _)
RPowInt(p, k) == IF k = 0 THEN One ELSE RMul(p, RPowInt(p, k - 1))

(***************************************************************************)
(* Floating-point values as the scripts' arithmetic produces them.         *)
(***************************************************************************)
NaN == [k |-> "nan"]
Num(r) == [k |-> "rat", v |-> r]
Pw(r, e) == [k |-> "pow", v |-> r, e |-> e]
AnySign == [k |-> "any"]
Sgn(s) == IF s = 0 THEN Num(Zero) ELSE IF s = 2 THEN AnySign ELSE [k |-> "sgn", s |-> s]
Positive == Sgn(1)

IsNaN(a) == a.k = "nan"
IsExact(a) == a.k \in {"rat", "pow"}

\* The sign of a value that is not nan: -1, 0, 1, or 2 when it is not known.
SignOf(a) ==
  CASE a.k = "rat" -> RSign(a.v)
    [] a.k = "pow" -> 1
    [] a.k = "sgn" -> a.s
    [] a.k = "any" -> 2

\* numpy's comparison value >= 0: False for nan.
NonNeg(a) == ~IsNaN(a) /\ SignOf(a) \in {0, 1}
IsZero(a) == ~IsNaN(a) /\ SignOf(a) = 0
IsPositive(a) == ~IsNaN(a) /\ SignOf(a) = 1

AddSign(s, t) ==
  IF s = 0 THEN t ELSE IF t = 0 THEN s ELSE IF s = t THEN s ELSE 2
MulSign(s, t) ==
  IF s = 0 \/ t = 0 THEN 0 ELSE IF s = 2 \/ t = 2 THEN 2 ELSE s * t
NegSign(s) == IF s = 2 THEN 2 ELSE -s

\* base ** exponent for a rational base (numpy: nan for a negative base with a
\* non-integer exponent; 1 ** e = 1; 0 ** e = 0 for e > 0).
FPow(r, e) ==
  IF e.d = 1 /\ e.n >= 0 THEN Num(RPowInt(r, e.n))
  ELSE IF e.d = 1 /\ r.n # 0 THEN Num(RPowInt(RInv(r), -e.n))
  ELSE IF r.n < 0 THEN NaN
  ELSE IF r.n = 0 THEN Num(Zero)
  ELSE IF r = One THEN Num(One)
  ELSE Pw(r, e)

\* An exact positive value as base ^ exponent with a positive exponent.
PowBase(a) ==
  IF a.k = "pow" THEN (IF RSign(a.e) < 0 THEN RInv(a.v) ELSE a.v) ELSE a.v
PowExp(a) == IF a.k = "pow" THEN RAbs(a.e) ELSE One

\* The sign of a - b for two exact values.
CmpExact(a, b) ==
  IF a.k = "rat" /\ b.k = "rat" THEN RCmp(a.v, b.v)
  ELSE IF a.k = "rat" /\ RSign(a.v) <= 0 THEN -1
  ELSE IF b.k = "rat" /\ RSign(b.v) <= 0 THEN 1
  ELSE IF PowExp(a) = PowExp(b) THEN RCmp(PowBase(a), PowBase(b))
  ELSE IF PowBase(a) = One THEN RCmp(One, PowBase(b))
  ELSE IF PowBase(b) = One THEN RCmp(PowBase(a), One)
  ELSE RCmp(RPowInt(PowBase(a), PowExp(a).n * PowExp(b).d),
            RPowInt(PowBase(b), PowExp(b).n * PowExp(a).d))

FNeg(a) ==
  IF IsNaN(a) THEN NaN
  ELSE IF a.k = "rat" THEN Num(RSub(Zero, a.v))
  ELSE Sgn(NegSign(SignOf(a)))

FAdd(a, b) ==
  IF IsNaN(a) \/ IsNaN(b) THEN NaN
  ELSE IF a.k = "rat" /\ b.k = "rat" THEN Num(RAdd(a.v, b.v))
  ELSE Sgn(AddSign(SignOf(a), SignOf(b)))

FSub(a, b) ==
  IF IsNaN(a) \/ IsNaN(b) THEN NaN
  ELSE IF a.k = "rat" /\ b.k = "rat" THEN Num(RSub(a.v, b.v))
  ELSE IF IsExact(a) /\ IsExact(b) THEN Sgn(CmpExact(a, b))
  ELSE Sgn(AddSign(SignOf(a), NegSign(SignOf(b))))

FMul(a, b) ==
  IF IsNaN(a) \/ IsNaN(b) THEN NaN
  ELSE IF a.k = "rat" /\ b.k = "rat" THEN Num(RMul(a.v, b.v))
  ELSE IF a = Num(One) THEN b
  ELSE IF b = Num(One) THEN a
  ELSE Sgn(MulSign(SignOf(a), SignOf(b)))

\* a / b for b # 0.
FDiv(a, b) ==
  IF IsNaN(a) \/ IsNaN(b) THEN NaN
  ELSE IF a.k = "rat" /\ b.k = "rat" THEN Num(RDiv(a.v, b.v))
  ELSE Sgn(MulSign(SignOf(a), SignOf(b)))

\* A boolean array entry multiplied into a float: False is 0.0, True is 1.0.
Mask(c) == IF c THEN Num(One) ELSE Num(Zero)


(***************************************************************************)
(* Input parameters and grids.                                             *)
(***************************************************************************)
Scripts == {"single_pulsar", "pulsar_IR_flare_test"}

\* particle_slope = 2.2
particle_slope == Rat(22, 10)

\* The unit of time is the pericenter time.
pericenter_time == One

\* log10 of the grid points of np.logspace(0, np.log10(gamma_max), NGamma):
\* gamma_max is NGamma - 1 decades, so that the grid is one point per decade.
log10_gamma_table == [j \in 1..NGamma |-> j - 1]
GammaGrid == [j \in 1..NGamma |-> RPowInt(Int2Rat(10), log10_gamma_table[j])]
gamma_max == GammaGrid[NGamma]

\* Minimum Lorentz factors: off the grid, on the grid, and the degenerate
\* gamma_min = gamma_max and gamma_min > gamma_max.
GammaMinChoices ==
  {Int2Rat(5), Int2Rat(10), Int2Rat(50), gamma_max, RMul(Int2Rat(2), gamma_max)}

\* Cooling coefficients b (per unit pericenter time and unit Lorentz factor).
BChoices == {Rat(1, 50), Rat(9, 100), Rat(9, 10), One}

\* Time grids, in units of the pericenter time: up to the pericenter time,
\* beyond it, starting at 0, unordered, and with no time <= pericenter_time.
TimeGrids ==
  { <<Rat(1, 100), Rat(1, 10), One>>,
    <<Rat(1, 10), One, Int2Rat(10)>>,
    <<Zero, One, Int2Rat(2)>>,
    <<Int2Rat(2), One, Rat(1, 10)>>,
    <<Int2Rat(2), Int2Rat(10)>> }

\* log10 of 4 pi m_e c / (3 e B), the coefficient of nu / gamma^2 in x.
XCoeffChoices == {-27, -24, -5}

\* log10 of np.logspace(7, 28, NNu).
log10_photon_frequency ==
  [n \in 1..NNu |-> RAdd(Int2Rat(7), Rat((28 - 7) * (n - 1), NNu - 1))]

\* The thresholds of x, as log10: 10**-20. and 100.
Log10XMin == -20
Log10XMax == 2

VARIABLES
  script,                     \* which of the two scripts runs
  gamma_min, b, timestable,   \* input parameters
  x_coeff_log10,
  gamma_table,                \* the Lorentz-factor grid
  pc,                         \* the stage of the script
  i,                          \* the loop index of the current stage (from 1)
  br,                         \* the part of the piecewise function to add next
  err,                        \* the exception that ended the run, or "none"
  particle_distribution_norm,
  particle_distribution,
  f,
  f_interp,                   \* the kernel interpolant: its tabulated domain
  f_interp_calls,             \* the arguments f_interp was evaluated at
  x, p_single, synchrotron_pow

vars == <<script, gamma_min, b, timestable, x_coeff_log10, gamma_table, pc, i,
          br, err, particle_distribution_norm, particle_distribution, f,
          f_interp, f_interp_calls, x, p_single, synchrotron_pow>>

inputs == <<script, gamma_min, b, timestable, x_coeff_log10, gamma_table>>

NTime == Len(timestable)

Init ==
  /\ script \in Scripts
  /\ gamma_min \in GammaMinChoices
  /\ b \in BChoices
  /\ timestable \in TimeGrids
  /\ x_coeff_log10 \in XCoeffChoices
  /\ gamma_table = GammaGrid
  /\ pc = "derive"
  /\ i = 1
  /\ br = 1
  /\ err = "none"
  /\ particle_distribution_norm = NaN
  /\ particle_distribution = <<>>
  /\ f = <<>>
  /\ f_interp = <<>>
  /\ f_interp_calls = {}
  /\ x = <<>>
  /\ p_single = <<>>
  /\ synchrotron_pow = <<>>

(***************************************************************************)
(* Derived parameters.                                                     *)
(***************************************************************************)
\* gamma_min**(2 - particle_slope) - gamma_max**(2 - particle_slope)
NormDenominator ==
  FSub(FPow(gamma_min, RSub(Int2Rat(2), particle_slope)),
       FPow(gamma_max, RSub(Int2Rat(2), particle_slope)))

\* epsilon_e * spin_down_L * (particle_slope - 2) / (electron_mass *
\* speed_light**2 * NormDenominator), for a denominator that is not zero;
\* epsilon_e * spin_down_L and electron_mass * speed_light**2 are positive.
NormValue ==
  FDiv(FMul(Positive, Num(RSub(particle_slope, Int2Rat(2)))),
       FMul(Positive, NormDenominator))

\* gamma_max * (1 + timestable[i] * b * gamma_max): multiplied, not divided.
gamma_cool_1_multiplied(t) ==
  RMul(gamma_max, RAdd(One, RMul(RMul(timestable[t], b), gamma_max)))

\* gamma_cool_1[i] = gamma_max / (1 + timestable[i] * b * gamma_max)
gamma_cool_1(t) ==
  RDiv(gamma_max, RAdd(One, RMul(RMul(timestable[t], b), gamma_max)))

\* gamma_cool_2[i] = gamma_min / (1 + b * timestable[i] * gamma_min)
gamma_cool_2(t) ==
  RDiv(gamma_min, RAdd(One, RMul(RMul(b, timestable[t]), gamma_min)))

ZeroRow == [j \in 1..NGamma |-> Num(Zero)]

(***************************************************************************)
(* The four parts of the piecewise function, for time step t and grid      *)
(* point j.                                                                *)
(***************************************************************************)
\* The boolean factor of part k.
RangeMask(k, t, j) ==
  CASE k = 1 -> RLt(gamma_min, gamma_table[j]) /\ RLt(gamma_table[j], gamma_cool_1(t))
    [] k = 2 -> RLt(gamma_cool_1(t), gamma_table[j]) /\ RLt(gamma_table[j], gamma_max)
    [] k = 3 -> RLt(gamma_cool_1(t), gamma_table[j]) /\ RLt(gamma_table[j], gamma_min)
    [] k = 4 -> RLt(gamma_cool_2(t), gamma_table[j]) /\ RLt(gamma_table[j], gamma_min)

\* (1 - b * gamma_table)**(particle_slope - 1): the time factor is missing.
CooledPowWithoutTime(t, j) ==
  FPow(RSub(One, RMul(b, gamma_table[j])), RSub(particle_slope, One))

\* (1 - b * gamma_table * timestable[i])**(particle_slope - 1)
CooledPow(t, j) ==
  FPow(RSub(One, RMul(RMul(b, gamma_table[j]), timestable[t])),
       RSub(particle_slope, One))

\* The float factors with the two terms of part 4 exchanged.
BranchValuePart4Reversed(k, t, j) ==
  CASE k = 1 -> FSub(Num(One), CooledPow(t, j))
    [] k = 2 -> FSub(Num(One),
                     FPow(RDiv(gamma_max, gamma_table[j]), RSub(One, particle_slope)))
    [] k = 3 -> FMul(FSub(Num(One),
                          FPow(RDiv(gamma_max, gamma_min), RSub(One, particle_slope))),
                     FPow(RDiv(gamma_min, gamma_table[j]), RSub(One, particle_slope)))
    [] k = 4 -> FSub(CooledPow(t, j),
                     FPow(RDiv(gamma_min, gamma_table[j]), RSub(One, particle_slope)))

\* The float factor of part k, evaluated on the whole grid as numpy does.
BranchValue(k, t, j) ==
  CASE k = 1 -> FSub(Num(One), CooledPow(t, j))
    [] k = 2 -> FSub(Num(One),
                     FPow(RDiv(gamma_max, gamma_table[j]), RSub(One, particle_slope)))
    [] k = 3 -> FMul(FSub(Num(One),
                          FPow(RDiv(gamma_max, gamma_min), RSub(One, particle_slope))),
                     FPow(RDiv(gamma_min, gamma_table[j]), RSub(One, particle_slope)))
    [] k = 4 -> FSub(FPow(RDiv(gamma_min, gamma_table[j]), RSub(One, particle_slope)),
                     CooledPow(t, j))

\* f = (mask) * (mask) * (value)
BranchArray(k, t) ==
  [j \in 1..NGamma |-> FMul(Mask(RangeMask(k, t, j)), BranchValue(k, t, j))]

\* The nans are left in the array.
NansKept(a) == a

\* f[np.isnan(f)] = 0
NanToZero(a) == [j \in DOMAIN a |-> IF IsNaN(a[j]) THEN Num(Zero) ELSE a[j]]

\* row += f
AddRows(r, a) == [j \in DOMAIN r |-> FAdd(r[j], a[j])]

\* particle_distribution += f: without the row index numpy adds f to every row.
AddToEveryRow(pd, t, a) == [u \in DOMAIN pd |-> AddRows(pd[u], a)]

\* particle_distribution[i] += f
AddToRow(pd, t, a) == [pd EXCEPT ![t] = AddRows(@, a)]

\* particle_distribution_norm * gamma_table**(-1 - particle_slope) /
\* (b * (particle_slope - 1))
NormFactor(j) ==
  FDiv(FMul(particle_distribution_norm,
            FPow(gamma_table[j], RSub(Int2Rat(-1), particle_slope))),
       FMul(Num(b), Num(RSub(particle_slope, One))))

\* particle_distribution[i] *= (...)
NormaliseRow(pd, t) ==
  [pd EXCEPT ![t] = [j \in 1..NGamma |-> FMul(pd[t][j], NormFactor(j))]]

\* Which regime handles time step t: the flare script has no else-branch.
IsPiecewiseStep(t) ==
  script = "pulsar_IR_flare_test" \/ RLe(timestable[t], pericenter_time)

(***************************************************************************)
(* Actions: derived parameters and the particle-distribution loop.         *)
(***************************************************************************)
\* An uncaught exception ends the run where it is raised.
Raise(e) ==
  /\ pc' = pc
  /\ err' = e

Running == err = "none"

\* From the input parameters to the start of the loop.  Python's float division
\* raises ZeroDivisionError for a zero denominator.
Derive ==
  /\ pc = "derive"
  /\ Running
  /\ IF IsZero(NormDenominator)
     THEN /\ Raise("ZeroDivisionError")
          /\ UNCHANGED <<particle_distribution_norm, particle_distribution, f>>
     ELSE /\ particle_distribution_norm' = NormValue
          /\ particle_distribution' = [t \in 1..NTime |-> ZeroRow]
          /\ f' = ZeroRow
          /\ pc' = "rows"
          /\ err' = err
  /\ UNCHANGED <<inputs, i, br, f_interp, f_interp_calls, x, p_single, synchrotron_pow>>

\* One part of the piecewise function: f is computed, its nans are set to zero
\* and it is added to row i.  In pulsar_IR_flare_test.py the name isnan is not
\* defined, and the statement that would set the nans to zero raises NameError.
PiecewiseBranch ==
  /\ pc = "rows"
  /\ Running
  /\ IsPiecewiseStep(i)
  /\ br \in 1..4
  /\ IF script = "pulsar_IR_flare_test"
     THEN /\ f' = BranchArray(br, i)
          /\ Raise("NameError")
          /\ UNCHANGED <<particle_distribution, br>>
     ELSE /\ f' = NanToZero(BranchArray(br, i))
          /\ particle_distribution' = AddToRow(particle_distribution, i, f')
          /\ br' = br + 1
          /\ UNCHANGED <<pc, err>>
  /\ UNCHANGED <<inputs, i, particle_distribution_norm, f_interp, f_interp_calls,
                 x, p_single, synchrotron_pow>>

\* The end of a loop iteration: the next time step, or the next stage.
NextRowPc == IF i = NTime THEN "kernel" ELSE "rows"
NextRowI == IF i = NTime THEN 1 ELSE i + 1

\* The row is multiplied by the normalisation factor.
Normalise ==
  /\ pc = "rows"
  /\ Running
  /\ IsPiecewiseStep(i)
  /\ br = 5
  /\ particle_distribution' = NormaliseRow(particle_distribution, i)
  /\ pc' = NextRowPc
  /\ i' = NextRowI
  /\ br' = 1
  /\ UNCHANGED <<inputs, err, particle_distribution_norm, f, f_interp,
                 f_interp_calls, x, p_single, synchrotron_pow>>

(***************************************************************************)
(* Times above the pericenter time (single_pulsar.py only).                *)
(***************************************************************************)
\* np.sum(timestable <= pericenter_time) - 1 as an index into the table, from
\* 1: Python's index -1 is the last row.
CountPre == Cardinality({t \in 1..NTime : RLe(timestable[t], pericenter_time)})
SourceRow == IF CountPre = 0 THEN NTime ELSE CountPre

\* gamma_large_tp = 1 - b * gamma_table * (timestable[i] - pericenter_time)
gamma_large_tp(t, j) ==
  RSub(One, RMul(RMul(b, gamma_table[j]), RSub(timestable[t], pericenter_time)))

\* gamma_table / gamma_large_tp where gamma_large_tp > 0.
RemapQuery(t, j) == RDiv(gamma_table[j], gamma_large_tp(t, j))

\* interp1d raises ValueError for an argument outside [x[0], x[-1]]: here
\* log(gamma / g) for g > 0, and log(inf) = inf for g = 0.  For g < 0 the
\* logarithm is nan, which is inside no bound check.
RemapOutOfBounds(t, j) ==
  \/ RSign(gamma_large_tp(t, j)) = 0
  \/ /\ RSign(gamma_large_tp(t, j)) > 0
     /\ \/ RLt(RemapQuery(t, j), gamma_table[1])
        \/ RLt(gamma_table[NGamma], RemapQuery(t, j))

\* The linear interpolant of row r over log(gamma_table) at log(q), for q on
\* the grid or between two neighbours.
InterpRow(r, q) ==
  IF \E m \in 1..NGamma : gamma_table[m] = q
  THEN r[CHOOSE m \in 1..NGamma : gamma_table[m] = q]
  ELSE LET m == CHOOSE m \in 1..(NGamma - 1) :
                  RLt(gamma_table[m], q) /\ RLt(q, gamma_table[m + 1])
       IN  FAdd(FMul(Positive, r[m]), FMul(Positive, r[m + 1]))

\* f = interp(log(gamma_table / gamma_large_tp)) * gamma_large_tp**(-2)
RemapArray(pd, t) ==
  [j \in 1..NGamma |->
     IF RSign(gamma_large_tp(t, j)) < 0 THEN NaN
     ELSE FMul(InterpRow(pd[SourceRow], RemapQuery(t, j)),
               FPow(gamma_large_tp(t, j), Int2Rat(-2)))]

PostPericenter ==
  /\ pc = "rows"
  /\ Running
  /\ ~IsPiecewiseStep(i)
  /\ IF \E j \in 1..NGamma : RemapOutOfBounds(i, j)
     THEN /\ f' = ZeroRow
          /\ Raise("ValueError")
          /\ UNCHANGED <<particle_distribution, i>>
     ELSE /\ f' = NanToZero(RemapArray(particle_distribution, i))
          /\ particle_distribution' = [particle_distribution EXCEPT ![i] = f']
          /\ pc' = NextRowPc
          /\ i' = NextRowI
          /\ err' = err
  /\ UNCHANGED <<inputs, br, particle_distribution_norm, f_interp, f_interp_calls,
                 x, p_single, synchrotron_pow>>

(***************************************************************************)
(* Synchrotron spectrum.                                                   *)
(***************************************************************************)
\* The domain of the kernel table, as log10(x): np.log10(np.logspace(-20, 2, 99))
\* in pulsar_IR_flare_test.py.
x_store_log10 == [lo |-> Int2Rat(-20), hi |-> Int2Rat(2)]

\* The table single_pulsar.py loads from
\* tables/single_part_emissivity_x_store.txt: the same grid, stored.
synchrotron_log10_x == [lo |-> Int2Rat(-20), hi |-> Int2Rat(2)]

\* f_interp = interp1d(...)
BuildKernel ==
  /\ pc = "kernel"
  /\ Running
  /\ f_interp' = IF script = "single_pulsar" THEN synchrotron_log10_x
                 ELSE x_store_log10
  /\ pc' = "x"
  /\ UNCHANGED <<inputs, i, br, err, particle_distribution_norm,
                 particle_distribution, f, f_interp_calls, x, p_single,
                 synchrotron_pow>>

\* log10 of x[n, j] = 4 pi m_e c photon_frequency[n] / (3 e B gamma_table[j]**2)
XLog10(n, j) ==
  RSub(RAdd(Int2Rat(x_coeff_log10), log10_photon_frequency[n]),
       Int2Rat(2 * log10_gamma_table[j]))

ComputeX ==
  /\ pc = "x"
  /\ Running
  /\ x' = [n \in 1..NNu |-> [j \in 1..NGamma |-> XLog10(n, j)]]
  /\ pc' = "p_single"
  /\ UNCHANGED <<inputs, i, br, err, particle_distribution_norm,
                 particle_distribution, f, f_interp, f_interp_calls, p_single,
                 synchrotron_pow>>

\* (x[i, j] >= 10**-20.) * (x[i, j] < 100.) == 1: the upper end excluded.
InKernelRangeOpenAbove(lx) ==
  RLe(Int2Rat(Log10XMin), lx) /\ RLt(lx, Int2Rat(Log10XMax))

\* (x[i, j] >= 10**-20.) * (x[i, j] <= 100.) == 1, on log10(x)
InKernelRange(lx) ==
  RLe(Int2Rat(Log10XMin), lx) /\ RLe(lx, Int2Rat(Log10XMax))

\* interp1d raises ValueError for an argument outside the table.
InterpFails(lx) == RLt(lx, f_interp.lo) \/ RLt(f_interp.hi, lx)

\* The position of (n, j) in the order the double loop visits the pairs.
LoopIndex(n, j) == (n - 1) * NGamma + j
XPairs == (1..NNu) \X (1..NGamma)
FailingPairs ==
  {q \in XPairs : InKernelRange(x[q[1]][q[2]]) /\ InterpFails(x[q[1]][q[2]])}
\* Whether the loop reaches the pair: no earlier pair raised.
Visited(n, j) ==
  \A q \in FailingPairs : LoopIndex(n, j) <= LoopIndex(q[1], q[2])

\* sqrt(3) e^3 B / (m_e c^2) * 10**f_interp(log10(x)): a positive number.
Emissivity(lx) == FMul(Positive, Positive)

ComputePSingle ==
  /\ pc = "p_single"
  /\ Running
  /\ f_interp_calls' =
       {x[q[1]][q[2]] : q \in {r \in XPairs :
            Visited(r[1], r[2]) /\ InKernelRange(x[r[1]][r[2]])}}
  /\ p_single' =
       [n \in 1..NNu |-> [j \in 1..NGamma |->
          IF Visited(n, j) /\ InKernelRange(x[n][j]) /\ ~InterpFails(x[n][j])
          THEN Emissivity(x[n][j]) ELSE Num(Zero)]]
  /\ IF FailingPairs # {}
     THEN /\ Raise("ValueError")
          /\ UNCHANGED synchrotron_pow
     ELSE /\ synchrotron_pow' = [t \in 1..NTime |-> [n \in 1..NNu |-> Num(Zero)]]
          /\ pc' = "synchrotron"
          /\ err' = err
  /\ UNCHANGED <<inputs, i, br, particle_distribution_norm, particle_distribution,
                 f, f_interp, x>>

\* np.log(gamma_table[0]) - np.log(gamma_table[1]): the difference reversed.
DeltaLnGammaReversed == Sgn(RCmp(gamma_table[1], gamma_table[2]))

\* np.log(gamma_table[1]) - np.log(gamma_table[0]): the logarithm is increasing.
DeltaLnGamma == Sgn(RCmp(gamma_table[2], gamma_table[1]))

\* integrand = gamma_table * (delta ln gamma) * p_single[n] * particle_distribution[t]
Integrand(t, n, k) ==
  FMul(FMul(FMul(Num(gamma_table[k]), DeltaLnGamma), p_single[n][k]),
       particle_distribution[t][k])

\* np.sum(integrand), over the first k grid points
RECURSIVE SumIntegrand(_, _, _)
SumIntegrand(t, n, k) ==
  IF k = 0 THEN Num(Zero)
  ELSE FAdd(SumIntegrand(t, n, k - 1), Integrand(t, n, k))

\* synchrotron_pow[t, n] = photon_frequency[n] * np.sum(integrand)
SynchrotronEntry(t, n) == FMul(Positive, SumIntegrand(t, n, NGamma))

SynchrotronRow ==
  /\ pc = "synchrotron"
  /\ Running
  /\ synchrotron_pow' =
       [synchrotron_pow EXCEPT ![i] = [n \in 1..NNu |-> SynchrotronEntry(i, n)]]
  /\ pc' = IF i = NTime THEN "plot" ELSE "synchrotron"
  /\ i' = NextRowI
  /\ UNCHANGED <<inputs, br, err, particle_distribution_norm,
                 particle_distribution, f, f_interp, f_interp_calls, x, p_single>>

\* The plots read the tables.
Plot ==
  /\ pc = "plot"
  /\ Running
  /\ pc' = "done"
  /\ UNCHANGED <<inputs, i, br, err, particle_distribution_norm,
                 particle_distribution, f, f_interp, f_interp_calls, x, p_single,
                 synchrotron_pow>>

Next ==
  \/ Derive
  \/ PiecewiseBranch
  \/ Normalise
  \/ PostPericenter
  \/ BuildKernel
  \/ ComputeX
  \/ ComputePSingle
  \/ SynchrotronRow
  \/ Plot

Spec == Init /\ [][Next]_vars

(***************************************************************************)
(* Properties.                                                             *)
(***************************************************************************)
\* The parameter range the derived-parameter formulas are written for.
ValidParams == RLt(Zero, gamma_min) /\ RLt(gamma_min, gamma_max)

\* Row t of the particle-distribution table has been computed.
RowFinished(t) ==
  /\ pc # "derive"
  /\ t \in 1..NTime
  /\ pc = "rows" => t < i

\* Row t of the synchrotron power table has been computed.
SynchrotronRowFinished(t) ==
  /\ t \in 1..NTime
  /\ \/ pc \in {"plot", "done"}
     \/ pc = "synchrotron" /\ t < i

\* The time steps the piecewise model has finished, and those the remap has.
PiecewiseRows == {t \in 1..NTime : RowFinished(t) /\ IsPiecewiseStep(t)}
RemapRows == {t \in 1..NTime : RowFinished(t) /\ ~IsPiecewiseStep(t)}

\* C1: for a parameter set with 0 < gamma_min < gamma_max, every entry of every
\* finished row of the particle-distribution table is >= 0, for the rows of the
\* piecewise model and for the remapped rows after the pericenter time alike.
C1_DistributionNonNegative ==
  ValidParams =>
    \A t \in PiecewiseRows \cup RemapRows : \A j \in 1..NGamma :
      NonNeg(particle_distribution[t][j])

\* A run that has finished a piecewise row and a remapped row, each with a
\* strictly positive entry.
C1_Witness ==
  /\ ValidParams
  /\ \E t \in PiecewiseRows : \E j \in 1..NGamma :
       IsPositive(particle_distribution[t][j])
  /\ \E t \in RemapRows : \E j \in 1..NGamma :
       IsPositive(particle_distribution[t][j])

\* The parts of the piecewise function whose range selects grid point j at time
\* step t.
SelectingParts(t, j) == {k \in 1..4 : RangeMask(k, t, j)}

\* C2: at the time step whose four parts have just been added to the row, every
\* grid point is selected by at most one of the four range masks.
C2_MasksDisjoint ==
  (pc = "rows" /\ Running /\ IsPiecewiseStep(i) /\ br = 5) =>
    \A j \in 1..NGamma : Cardinality(SelectingParts(i, j)) <= 1

\* The injection power law at grid point j:
\* particle_distribution_norm * gamma**(-particle_slope).
InjectionPowerLaw(j) ==
  FMul(particle_distribution_norm,
       FPow(gamma_table[j], RSub(Zero, particle_slope)))

InSupport(j) == RLe(gamma_min, gamma_table[j]) /\ RLe(gamma_table[j], gamma_max)

\* The finished piecewise rows of time 0.
TimeZeroRows == {t \in PiecewiseRows : timestable[t] = Zero}

\* C3 as claimed: the row of t = 0 is the injection power law inside
\* [gamma_min, gamma_max] and zero outside.
C3_RowAtZeroIsInjection ==
  ValidParams =>
    \A t \in TimeZeroRows : \A j \in 1..NGamma :
      IF InSupport(j)
      THEN particle_distribution[t][j] = InjectionPowerLaw(j)
      ELSE IsZero(particle_distribution[t][j])

\* C3 as amended: the row of t = 0 is zero at every grid point, inside the
\* support (where the injection power law is positive) and outside it.
C3_RowAtZeroIsZero ==
  \A t \in TimeZeroRows : \A j \in 1..NGamma :
    IsZero(particle_distribution[t][j])

\* A finished row of t = 0 with a grid point strictly inside the support, where
\* the injection power law is positive.
C3_Witness ==
  /\ ValidParams
  /\ \E t \in TimeZeroRows : \E j \in 1..NGamma :
       /\ RLt(gamma_min, gamma_table[j])
       /\ RLt(gamma_table[j], gamma_max)
       /\ IsPositive(InjectionPowerLaw(j))

\* C4: once the break points are computed, gamma_cool_1 = gamma_max and
\* gamma_cool_2 = gamma_min at a time step of t = 0, and at a time step of
\* t > 0 (b > 0, 0 < gamma_min < gamma_max) gamma_cool_1 < gamma_max,
\* gamma_cool_2 < gamma_min and gamma_cool_2 < gamma_cool_1.
C4_CoolingBreaks ==
  pc # "derive" =>
    \A t \in 1..NTime :
      /\ timestable[t] = Zero =>
           gamma_cool_1(t) = gamma_max /\ gamma_cool_2(t) = gamma_min
      /\ (RLt(Zero, timestable[t]) /\ RLt(Zero, b) /\ ValidParams) =>
           /\ RLt(gamma_cool_1(t), gamma_max)
           /\ RLt(gamma_cool_2(t), gamma_min)
           /\ RLt(gamma_cool_2(t), gamma_cool_1(t))

\* The break points are computed for a grid holding t = 0 and a t > 0.
C4_Witness ==
  /\ pc # "derive"
  /\ ValidParams
  /\ RLt(Zero, b)
  /\ \E t \in 1..NTime : timestable[t] = Zero
  /\ \E t \in 1..NTime : RLt(Zero, timestable[t])

\* C5: for a parameter set with 0 < gamma_min < gamma_max, every entry of every
\* computed row of the synchrotron power table is >= 0.
C5_SynchrotronNonNegative ==
  ValidParams =>
    \A t \in 1..NTime : SynchrotronRowFinished(t) =>
      \A n \in 1..NNu : NonNeg(synchrotron_pow[t][n])

\* A computed synchrotron row with a strictly positive entry.
C5_Witness ==
  /\ ValidParams
  /\ \E t \in 1..NTime :
       /\ SynchrotronRowFinished(t)
       /\ \E n \in 1..NNu : IsPositive(synchrotron_pow[t][n])

\* C6 as claimed: in both scripts, at a time step handled by the piecewise
\* model no exception is raised, and each contribution that has been added to
\* the row holds no nan.
C6_NanReplacedNoError ==
  (pc = "rows" /\ IsPiecewiseStep(i)) =>
    /\ err = "none"
    /\ br > 1 => \A j \in 1..NGamma : ~IsNaN(f[j])

\* A part of the piecewise function whose range selects no grid point at the
\* current time step has just been added: it is zero at every grid point.
EmptyMaskContributesZero ==
  (pc = "rows" /\ Running /\ IsPiecewiseStep(i) /\ br \in 2..5
     /\ \A j \in 1..NGamma : ~RangeMask(br - 1, i, j)) =>
    \A j \in 1..NGamma : IsZero(f[j])

\* No exception in the derived parameters and in the piecewise rows.
NoErrorInPiecewiseStage ==
  (pc = "derive" \/ (pc = "rows" /\ IsPiecewiseStep(i))) => err = "none"

C9_FlareRowAtPericenter ==
  (/\ script = "pulsar_IR_flare_test"
   /\ ValidParams
   /\ \E t \in 1..NTime : timestable[t] = pericenter_time
   /\ (pc = "done" \/ ~Running)) =>
    \E t \in 1..NTime :
      /\ timestable[t] = pericenter_time
      /\ RowFinished(t)
      /\ \A j \in 1..NGamma : NonNeg(particle_distribution[t][j])
      /\ \E j \in 1..NGamma : IsPositive(particle_distribution[t][j])

\* The row of the piecewise model at time step t, from the parameters alone.
PiecewiseRowOf(t) ==
  [j \in 1..NGamma |->
     FMul(FAdd(FAdd(FAdd(FAdd(Num(Zero), NanToZero(BranchArray(1, t))[j]),
                         NanToZero(BranchArray(2, t))[j]),
                    NanToZero(BranchArray(3, t))[j]),
               NanToZero(BranchArray(4, t))[j]),
          NormFactor(j))]

C10_Step ==
  /\ inputs' = inputs
  /\ pc = "rows" =>
       \A t \in 1..NTime :
         t # i => particle_distribution'[t] = particle_distribution[t]
  /\ pc \notin {"derive", "rows"} => particle_distribution' = particle_distribution
  /\ f_interp # <<>> => f_interp' = f_interp
  /\ x # <<>> => x' = x
  /\ p_single # <<>> => p_single' = p_single
  /\ synchrotron_pow' # synchrotron_pow => pc \in {"p_single", "synchrotron"}
  /\ pc = "synchrotron" =>
       \A t \in 1..NTime :
         t # i => synchrotron_pow'[t] = synchrotron_pow[t]
  /\ (pc = "rows" /\ IsPiecewiseStep(i) /\ br = 5) =>
       particle_distribution'[i] = PiecewiseRowOf(i)

\* C10: every step leaves the grids and the parameters alone; a step of the
\* particle-distribution loop changes no row but row i, and the step that
\* finishes row i of the piecewise model leaves in it a function of the
\* parameters and of time i alone;
\* after the loop no step changes the particle-distribution table; the kernel
\* table, x and the emissivity are not changed once made; the synchrotron power
\* table is written only after the loop, one row per step.
C10_WriteOnce == [][C10_Step]_vars

\* A finished run with a remapped row and a synchrotron row that are not zero.
C10_Witness ==
  /\ pc = "done"
  /\ \E t \in RemapRows : \E j \in 1..NGamma :
       ~IsZero(particle_distribution[t][j])
  /\ \E t \in 1..NTime : \E n \in 1..NNu : ~IsZero(synchrotron_pow[t][n])

\* The loop is at a time step above the pericenter time, about to remap.
AtRemapStep == pc = "rows" /\ Running /\ ~IsPiecewiseStep(i)

\* C11 as claimed: in single_pulsar.py a time step is handled by the piecewise
\* model iff its time is <= pericenter_time and by the remap otherwise, and at
\* every remap step the source row, index np.sum(timestable <= pericenter_time)
\* - 1, is a row of a time <= pericenter_time, of the largest such time, and is
\* finished (all parts added and normalised) before the step reads it; for
\* ascending, unordered and all-above-pericenter time grids alike.
C11_SourceRowComputed ==
  script = "single_pulsar" =>
    /\ \A t \in 1..NTime :
         IsPiecewiseStep(t) <=> RLe(timestable[t], pericenter_time)
    /\ AtRemapStep =>
         /\ RLe(timestable[SourceRow], pericenter_time)
         /\ \A t \in 1..NTime :
              RLe(timestable[t], pericenter_time) =>
                RLe(timestable[t], timestable[SourceRow])
         /\ SourceRow < i
         /\ particle_distribution[SourceRow] = PiecewiseRowOf(SourceRow)

\* The entry the remap leaves at grid point j of row t: zero where the query is
\* nan (gamma_large_tp < 0), else the interpolant times gamma_large_tp**(-2).
RemapEntryAsClaimed(t, j) ==
  IF RSign(gamma_large_tp(t, j)) < 0
  THEN IsZero(particle_distribution[t][j])
  ELSE /\ RLe(gamma_table[1], RemapQuery(t, j))
       /\ RLe(RemapQuery(t, j), gamma_table[NGamma])
       /\ particle_distribution[t][j] =
            FMul(InterpRow(particle_distribution[SourceRow], RemapQuery(t, j)),
                 FPow(gamma_large_tp(t, j), Int2Rat(-2)))

\* C12 as claimed: in single_pulsar.py no remap step raises an error; every
\* entry of a remapped row is the interpolant at a query inside
\* [gamma_table[0], gamma_table[-1]] times gamma_large_tp**(-2), or zero where
\* the query is nan; and at a remap step no grid point with
\* 0 <= gamma_large_tp < 1 has its query above gamma_table[-1].
C12_RemapWithoutError ==
  script = "single_pulsar" =>
    /\ (pc = "rows" /\ ~IsPiecewiseStep(i)) => err = "none"
    /\ \A t \in RemapRows : \A j \in 1..NGamma : RemapEntryAsClaimed(t, j)
    /\ AtRemapStep =>
         \A j \in 1..NGamma :
           (RSign(gamma_large_tp(i, j)) >= 0 /\ RLt(gamma_large_tp(i, j), One)) =>
             /\ RSign(gamma_large_tp(i, j)) > 0
             /\ RLe(RemapQuery(i, j), gamma_table[NGamma])

====
